---- MODULE Spec2Model ----
(***************************************************************************)
(* VKDumper.py: the resumable, cursor-paginated photo dump of one VK       *)
(* conversation.  The model follows main(): load_state, the fetch loop,    *)
(* the planning of download tasks, the ThreadPoolExecutor batch running    *)
(* download_photo, and the two save_state calls that persist the cursor.   *)
(* The process can be interrupted (KeyboardInterrupt) or killed at any     *)
(* point and then run again on the same folder and resume_state.json.      *)
(***************************************************************************)
EXTENDS Integers, Sequences, FiniteSets, TLC

VARIABLES
    conv,        \* the remote conversation: the pages getHistoryAttachments serves
    stateFile,   \* resume_state.json on disk
    files,       \* the output folder: path -> "absent" | "partial" | "complete"
    pc,          \* position of the main thread in main()
    state,       \* main(): the dict returned by load_state
    start_from,  \* main(): the cursor of the next request
    resp,        \* main(): the last response (page number, or an error)
    tasks,       \* main(): the (url, path) pairs planned from resp's items
    fut,         \* the futures of the batch: the position of each download_photo call
    total,       \* main(): photos downloaded by this run
    writes,      \* history: how many times each path was opened for writing
    rerun,       \* history: whether an earlier run of the program has ended
    saveFailed   \* history: a save_state of this run failed (and was swallowed)

vars == <<conv, stateFile, files, pc, state, start_from, resp, tasks, fut,
          total, writes, rerun, saveFailed>>

---------------------------------------------------------------------------
(* Program constants and values *)

MAX_WORKERS == 6

\* Python None, JSON null, a next_from the response does not carry
None == 0
\* a key the mapping does not hold
NoKey == -1
\* a field an item or a size variant does not carry
Missing == -1

\* resp after an ApiError / after any other exception of the request
ApiErr == -1
OtherErr == -2
\* resp before the first request of a run
NoResp == 0

\* the conversation main() was asked for, and another one resume_state.json may hold
peer_id == 1
OtherPeer == 2
Peers == {peer_id, OtherPeer}

\* how far the history variable writes counts
MaxWrites == 2

---------------------------------------------------------------------------
(* URLs, items and the planning of tasks (main, lines 175-189) *)

\* A URL is kept as the dot-separated segments of the text before its first "?",
\* and the query after it.  A variant without "url" carries NoUrl.
Url(name, ext) == [base |-> <<name, ext>>, query |-> ""]
UrlQ(name, ext, q) == [base |-> <<name, ext>>, query |-> q]
NoUrl == [base |-> <<>>, query |-> ""]

Variant(w, u) == [width |-> w, url |-> u]

Item(id, sizes) == [attachment |-> TRUE, photo |-> TRUE, id |-> id, sizes |-> sizes]
NoAttachment == [attachment |-> FALSE, photo |-> FALSE, id |-> Missing, sizes |-> <<>>]
NoPhoto == [attachment |-> TRUE, photo |-> FALSE, id |-> Missing, sizes |-> <<>>]

\* a missing width that outranks every width
WidthMissingHigh(s) == IF s.width = Missing THEN 1000 ELSE s.width

\* s.get("width", 0)
Width(s) == IF s.width = Missing THEN 0 ELSE s.width

\* max(sizes, key=...): the first variant no other variant exceeds
Best(sizes) ==
    LET i == CHOOSE i \in 1..Len(sizes) :
                 /\ \A j \in 1..Len(sizes) : Width(sizes[j]) <= Width(sizes[i])
                 /\ \A j \in 1..(i - 1) : Width(sizes[j]) < Width(sizes[i])
    IN  sizes[i]

\* url.split("?")[0].split(".")[-1]
Ext(url) == url.base[Len(url.base)]

\* os.path.join(folder, f"photo_{photo['id']}.{ext}")
Path(id, ext) == [id |-> id, ext |-> ext]

\* the body of the for loop: the tasks one item adds (none when it is skipped)
PlanItem(item) ==
    IF ~item.attachment \/ ~item.photo THEN <<>>
    ELSE IF Len(item.sizes) = 0 THEN <<>>
    ELSE LET best == Best(item.sizes) IN
         IF best.url = NoUrl THEN <<>>
         ELSE IF item.id = Missing THEN <<>>
         ELSE << [url |-> best.url, path |-> Path(item.id, Ext(best.url))] >>

\* a loop that stops at the first item it cannot plan
RECURSIVE PlanUntilBad(_)
PlanUntilBad(items) ==
    IF items = <<>> \/ PlanItem(Head(items)) = <<>> THEN <<>>
    ELSE PlanItem(Head(items)) \o PlanUntilBad(Tail(items))

RECURSIVE Plan(_)
Plan(items) ==
    IF items = <<>> THEN <<>> ELSE PlanItem(Head(items)) \o Plan(Tail(items))

---------------------------------------------------------------------------
(* The remote conversations the runs are checked on *)

Photo(id) == Item(id, << Variant(100, Url("s", "jpg")), Variant(600, Url("x", "jpg")) >>)
Small(id) == Item(id, << Variant(50, UrlQ("m", "jpg", "size=50.0")) >>)
NoSizes(id) == Item(id, <<>>)

Page(items, next) == [items |-> items, next_from |-> next]

\* one page with a next_from, followed by an empty page
ConvEmptyEnd == << Page(<< Photo(1), Small(2), NoSizes(3) >>, 2) >>
\* the same photo twice in the second page, which carries no next_from
ConvDup == << Page(<< Photo(1), NoAttachment >>, 2), Page(<< Small(2), Small(2) >>, None) >>
\* a page with more items than workers (one photo, forwarded again and again)
ConvBig == << Page([i \in 1..(MAX_WORKERS + 1) |-> Photo(1)], None) >>

\* two pages with a next_from each, followed by an empty page
ConvThree == << Page(<< Photo(1) >>, 2), Page(<< Small(2) >>, 3) >>

\* what resume_state.json holds when the program is first started, per conversation
Starts ==
    ({ConvEmptyEnd, ConvDup} \X {"absent", "notobj", "other"})
        \cup {<<ConvBig, "absent">>, <<ConvThree, "absent">>}

\* getHistoryAttachments: the page a cursor stands for; past the last page the
\* response has no items and no next_from
PageOf(c, k) == IF k \in 1..Len(c) THEN c[k] ELSE Page(<<>>, None)
\* resp.get("items", []) and resp.get("next_from")
Items(c, k) == PageOf(c, k).items
NextFrom(c, k) == PageOf(c, k).next_from

RECURSIVE PathsOf(_)
PathsOf(c) ==
    IF c = <<>> THEN {}
    ELSE LET t == Plan(Head(c).items) IN
         {t[i].path : i \in 1..Len(t)} \cup PathsOf(Tail(c))

---------------------------------------------------------------------------
(* resume_state.json (load_state, save_state) *)

EmptyMap == [p \in Peers |-> NoKey]

NoFile == [kind |-> "absent", map |-> EmptyMap]
\* an empty or partial JSON text: what open(..., "w") leaves until the dump is flushed
Truncated == [kind |-> "corrupt", map |-> EmptyMap]
\* well-formed JSON that is not an object
NotObject == [kind |-> "notobj", map |-> EmptyMap]
Obj(m) == [kind |-> "obj", map |-> m]

\* load_state, for a file that holds an object, is absent or cannot be parsed
\* (lines 93-94).  Reading a file that exists and is well formed is taken to
\* succeed; a file holding JSON that is not an object is handled in Load.
load_state(f) == IF f.kind = "obj" THEN f.map ELSE EmptyMap

\* dict.get(key): None when the key is absent
Get(m, k) == IF m[k] = NoKey THEN None ELSE m[k]

\* state[key] = value and state.pop(key, None)
Set(m, k, v) == [m EXCEPT ![k] = v]
Pop(m, k) == [m EXCEPT ![k] = NoKey]

\* what the next run would find for the conversation
Persisted(k) == load_state(stateFile)[k]

---------------------------------------------------------------------------
(* The batch *)

Finished == {"ok", "skipped", "failed"}

Running(f) == Cardinality({t \in 1..Len(f) : f[t] = "running"})

\* a pool that starts a thread for every submitted task
WorkerFreeUnbounded(f) == TRUE

\* a worker thread is free to take the next work item (max_workers=MAX_WORKERS)
WorkerFree(f) == Running(f) < MAX_WORKERS

\* a loop that goes on at the first future that completes
BatchDrainedFirst(f) == Len(f) = 0 \/ \E t \in 1..Len(f) : f[t] \in Finished

\* the as_completed loop has seen every future of the batch
BatchDrained(f) == \A t \in 1..Len(f) : f[t] \in Finished

\* a count of every task that went on to the request
ResultNotSkipped(ph) == ph # "skipped"

\* f.result(): what download_photo returned
Result(ph) == ph = "ok"

\* os.path.exists(path)
Exists(fs, p) == fs[p] # "absent"

\* download_photo without the os.path.exists test
ProceedsAlways(fs, task) == TRUE

\* download_photo, lines 107-109: TRUE when the call goes on to the request
Proceeds(fs, task) == ~Exists(fs, task.path)

\* open(path, "wb") by each task of S: the file is emptied, and counted as written
Opened(fs, S) ==
    [p \in DOMAIN fs |-> IF \E t \in S : tasks[t].path = p THEN "partial" ELSE fs[p]]
Counted(w, S) ==
    [p \in DOMAIN w |->
        LET n == w[p] + Cardinality({t \in S : tasks[t].path = p})
        IN  IF n < MaxWrites THEN n ELSE MaxWrites]

Terminal == {"done", "aborted", "interrupted", "killed", "crashed"}

---------------------------------------------------------------------------
(* Initial state: the program is started on an empty output folder *)

FirstFile(k) ==
    CASE k = "absent" -> NoFile
      [] k = "notobj" -> NotObject
      [] k = "other" -> Obj(Set(EmptyMap, OtherPeer, 5))

Init ==
    /\ \E s \in Starts : conv = s[1] /\ stateFile = FirstFile(s[2])
    /\ files = [p \in PathsOf(conv) |-> "absent"]
    /\ pc = "start"
    /\ state = EmptyMap
    /\ start_from = None
    /\ resp = NoResp
    /\ tasks = <<>>
    /\ fut = <<>>
    /\ total = 0
    /\ writes = [p \in PathsOf(conv) |-> 0]
    /\ rerun = FALSE
    /\ saveFailed = FALSE

---------------------------------------------------------------------------
(* main thread *)

\* lines 145-149: state = load_state(); start_from = state.get(str(peer_id)).
\* A file holding JSON that is not an object makes state.get raise AttributeError,
\* which main() does not catch.
Load ==
    /\ pc = "start"
    /\ IF stateFile.kind = "notobj"
       THEN /\ pc' = "crashed"
            /\ UNCHANGED <<state, start_from>>
       ELSE /\ state' = load_state(stateFile)
            /\ start_from' = Get(state', peer_id)
            /\ pc' = "fetch"
    /\ total' = 0
    /\ UNCHANGED <<conv, stateFile, files, resp, tasks, fut, writes, rerun, saveFailed>>

\* a retry of the request in place of the break
AfterFetchErrorRetry == "fetch"

\* lines 164-169: both except clauses report and break out of the loop
AfterFetchError == "aborted"

\* lines 153-169: the request fails; the loop is left
FetchError ==
    /\ pc = "fetch"
    /\ resp' \in {ApiErr, OtherErr}
    /\ pc' = AfterFetchError
    /\ UNCHANGED <<conv, stateFile, files, state, start_from, tasks, fut, total,
                   writes, rerun, saveFailed>>

\* lines 153-191: the request succeeds; an empty page leaves the loop, any other
\* page is planned and its tasks are submitted to the executor
Fetch ==
    /\ pc = "fetch"
    /\ LET k == IF start_from # None THEN start_from ELSE 1
           items == Items(conv, k)
       IN  /\ resp' = k
           /\ IF items = <<>>
              THEN /\ pc' = "done"
                   /\ UNCHANGED <<tasks, fut>>
              ELSE /\ tasks' = Plan(items)
                   /\ fut' = [t \in 1..Len(tasks') |-> "pending"]
                   /\ pc' = "wait"
    /\ UNCHANGED <<conv, stateFile, files, state, start_from, total, writes, rerun, saveFailed>>

\* where the loop goes after the first save_state (lines 201-204)
AfterSave(sf) == IF sf # None THEN "fetch" ELSE "save2"

\* lines 192-199: the batch is drained and counted, the cursor is put in state,
\* and save_state opens resume_state.json for writing (which empties it) or
\* fails to open it (swallowed, the file is as it was)
Collect ==
    /\ pc = "wait"
    /\ BatchDrained(fut)
    /\ total' = total + Cardinality({t \in 1..Len(fut) : Result(fut[t])})
    /\ start_from' = NextFrom(conv, resp)
    /\ state' = Set(state, peer_id, start_from')
    /\ \/ /\ stateFile' = Truncated
          /\ pc' = "dump1"
          /\ UNCHANGED saveFailed
       \/ /\ stateFile' = stateFile
          /\ pc' = AfterSave(start_from')
          /\ saveFailed' = TRUE
    /\ UNCHANGED <<conv, files, resp, tasks, fut, writes, rerun>>

\* lines 100-103: json.dump and the close write the mapping, or fail (swallowed)
Dump1 ==
    /\ pc = "dump1"
    /\ \/ stateFile' = Obj(state) /\ UNCHANGED saveFailed
       \/ stateFile' = stateFile /\ saveFailed' = TRUE
    /\ pc' = AfterSave(start_from)
    /\ UNCHANGED <<conv, files, state, start_from, resp, tasks, fut, total, writes,
                   rerun>>

\* lines 201-203: no next_from: the key is popped and save_state opens the file
Save2 ==
    /\ pc = "save2"
    /\ state' = Pop(state, peer_id)
    /\ \/ /\ stateFile' = Truncated
          /\ pc' = "dump2"
          /\ UNCHANGED saveFailed
       \/ /\ stateFile' = stateFile
          /\ pc' = "done"
          /\ saveFailed' = TRUE
    /\ UNCHANGED <<conv, files, start_from, resp, tasks, fut, total, writes, rerun>>

\* lines 100-103 for the second save, then the break of line 204
Dump2 ==
    /\ pc = "dump2"
    /\ \/ stateFile' = Obj(state) /\ UNCHANGED saveFailed
       \/ stateFile' = stateFile /\ saveFailed' = TRUE
    /\ pc' = "done"
    /\ UNCHANGED <<conv, files, state, start_from, resp, tasks, fut, total, writes,
                   rerun>>

---------------------------------------------------------------------------
(* worker threads: download_photo *)

Alive == pc \in {"wait", "drain"}

\* a free worker takes the oldest queued task and runs lines 107-109
Start(t) ==
    /\ Alive
    /\ fut[t] = "pending"
    /\ \A j \in 1..(t - 1) : fut[j] # "pending"
    /\ WorkerFree(fut)
    /\ fut' = [fut EXCEPT ![t] = IF Proceeds(files, tasks[t]) THEN "running" ELSE "skipped"]
    /\ UNCHANGED <<conv, stateFile, files, pc, state, start_from, resp, tasks, total,
                   writes, rerun, saveFailed>>

\* lines 111-116: the request succeeds, the file is opened and every chunk written
DownloadOk(t) ==
    /\ Alive
    /\ fut[t] = "running"
    /\ fut' = [fut EXCEPT ![t] = "ok"]
    /\ files' = [files EXCEPT ![tasks[t].path] = "complete"]
    /\ writes' = Counted(writes, {t})
    /\ UNCHANGED <<conv, stateFile, pc, state, start_from, resp, tasks, total, rerun, saveFailed>>

\* lines 111-118: the request fails (no file), or the stream or a write fails
\* after the file was opened (the file is left with the chunks written so far)
DownloadFail(t) ==
    /\ Alive
    /\ fut[t] = "running"
    /\ fut' = [fut EXCEPT ![t] = "failed"]
    /\ \/ UNCHANGED <<files, writes>>
       \/ /\ files' = Opened(files, {t})
          /\ writes' = Counted(writes, {t})
    /\ UNCHANGED <<conv, stateFile, pc, state, start_from, resp, tasks, total, rerun, saveFailed>>

---------------------------------------------------------------------------
(* interruption, kill, and the next run *)

\* KeyboardInterrupt in the main thread.  Inside the batch the with block of the
\* executor first waits for every submitted task (shutdown(wait=True)).
Interrupt ==
    /\ pc \in {"start", "fetch", "wait", "dump1", "save2", "dump2"}
    /\ pc' = IF pc = "wait" /\ ~BatchDrained(fut) THEN "drain" ELSE "interrupted"
    /\ UNCHANGED <<conv, stateFile, files, state, start_from, resp, tasks, fut, total,
                   writes, rerun, saveFailed>>

Drained ==
    /\ pc = "drain"
    /\ BatchDrained(fut)
    /\ pc' = "interrupted"
    /\ UNCHANGED <<conv, stateFile, files, state, start_from, resp, tasks, fut, total,
                   writes, rerun, saveFailed>>

\* the process is killed at a page boundary or with no download under way
KillQuiet ==
    /\ pc \notin Terminal
    /\ \A t \in 1..Len(fut) : fut[t] # "running"
    /\ pc' = "killed"
    /\ UNCHANGED <<conv, stateFile, files, state, start_from, resp, tasks, fut, total,
                   writes, rerun, saveFailed>>

\* the process is killed while downloads run: each of them had opened its file
\* (which is left partial) or had not
KillBusy ==
    /\ Alive
    /\ \E t \in 1..Len(fut) : fut[t] = "running"
    /\ \E S \in SUBSET {t \in 1..Len(fut) : fut[t] = "running"} :
          /\ files' = Opened(files, S)
          /\ writes' = Counted(writes, S)
    /\ pc' = "killed"
    /\ UNCHANGED <<conv, stateFile, state, start_from, resp, tasks, fut, total, rerun, saveFailed>>

\* the program is started again on the same folder and resume_state.json
StartRun ==
    /\ pc \in Terminal
    /\ pc' = "start"
    /\ state' = EmptyMap
    /\ start_from' = None
    /\ resp' = NoResp
    /\ tasks' = <<>>
    /\ fut' = <<>>
    /\ total' = 0
    /\ rerun' = TRUE
    /\ saveFailed' = FALSE
    /\ UNCHANGED <<conv, stateFile, files, writes>>

Next ==
    \/ Load
    \/ FetchError
    \/ Fetch
    \/ Collect
    \/ Dump1
    \/ Save2
    \/ Dump2
    \/ \E t \in 1..Len(fut) : Start(t)
    \/ \E t \in 1..Len(fut) : DownloadOk(t)
    \/ \E t \in 1..Len(fut) : DownloadFail(t)
    \/ Interrupt
    \/ Drained
    \/ KillQuiet
    \/ KillBusy
    \/ StartRun

Spec == Init /\ [][Next]_vars

---------------------------------------------------------------------------
(* Runs without download or request failures, stopped only between pages *)

\* between two pages: once the batch of a page is drained, until the next request
AtBoundary ==
    /\ resp >= 1
    /\ pc = "fetch" \/ (pc = "wait" /\ \A t \in 1..Len(fut) : fut[t] \in Finished)

NextResume ==
    \/ Load
    \/ Fetch
    \/ Collect
    \/ Dump1
    \/ Save2
    \/ Dump2
    \/ \E t \in 1..Len(fut) : Start(t)
    \/ \E t \in 1..Len(fut) : DownloadOk(t)
    \/ (AtBoundary /\ Interrupt)
    \/ (AtBoundary /\ KillQuiet)
    \/ StartRun

SpecResume == Init /\ [][NextResume]_vars

\* the files a single uninterrupted run without failures leaves: those of every
\* page it walks through, from the first page along the next_from cursors
RECURSIVE WalkPaths(_, _)
WalkPaths(c, k) ==
    IF Items(c, k) = <<>> THEN {}
    ELSE LET t == Plan(Items(c, k)) IN
         {t[i].path : i \in 1..Len(t)}
             \cup (IF NextFrom(c, k) = None THEN {} ELSE WalkPaths(c, NextFrom(c, k)))

FullRunFiles(c) == WalkPaths(c, 1)

Present == {p \in DOMAIN files : files[p] # "absent"}
Unfinished == {t \in 1..Len(fut) : fut[t] \in {"pending", "running"}}

---------------------------------------------------------------------------
(* Properties *)

\* C1: batch-then-persist.  While a task planned from page P is still pending or
\* running, the persisted resume state does not hold P's next_from.
BatchThenPersist ==
    (resp >= 1 /\ NextFrom(conv, resp) # None /\ Unfinished # {})
        => Persisted(peer_id) # NextFrom(conv, resp)

\* C1 witness: P's next_from is persisted, every task of P has finished and one
\* of them downloaded its file.
BatchThenPersistWitness ==
    /\ pc = "fetch"
    /\ resp >= 1
    /\ NextFrom(conv, resp) # None
    /\ Persisted(peer_id) = NextFrom(conv, resp)
    /\ Len(fut) >= 2
    /\ Unfinished = {}
    /\ \E t \in 1..Len(fut) : fut[t] = "ok"

\* C2: at every point outside a save, the persisted cursor of the conversation is
\* the next_from of the page most recently processed to the end (which the loop
\* holds in start_from), and the key is absent once the end of the stream is
\* reached.  Runs in which a save failed are left out.
CursorIsLastNextFrom ==
    (~saveFailed /\ pc \in {"fetch", "wait", "drain", "done"})
        => /\ start_from # None /\ pc # "done" => Persisted(peer_id) = start_from
           /\ start_from = None \/ pc = "done" => Persisted(peer_id) = NoKey

\* C3: a run that ends on an empty page leaves no key of the conversation in the
\* persisted resume state.
EmptyPageClearsCursor ==
    (pc = "done" /\ resp >= 1 /\ Items(conv, resp) = <<>>)
        => Persisted(peer_id) = NoKey

\* C4: at most MAX_WORKERS download_photo calls execute at the same time.
BoundedConcurrency ==
    Cardinality({t \in 1..Len(fut) : fut[t] = "running"}) <= MAX_WORKERS

\* C4 witness: a batch larger than the pool: six calls execute, one task waits.
BoundedConcurrencyWitness ==
    /\ pc = "wait"
    /\ Cardinality({t \in 1..Len(fut) : fut[t] = "running"}) = MAX_WORKERS
    /\ \E t \in 1..Len(fut) : fut[t] = "pending"

\* C5: over all runs, the file of an attachment is written at most once.
NoDuplicateWrites == \A p \in DOMAIN writes : writes[p] <= 1

\* C6: a task whose destination exists when it runs is skipped: the step changes
\* no file and opens none, the task never goes on to the request, and the count
\* of the batch leaves it out.
IdempotentSkip ==
    [][ /\ \A t \in 1..Len(fut) :
              /\ (/\ pc \in {"wait", "drain"}
                  /\ fut[t] = "pending"
                  /\ fut'[t] # "pending"
                  /\ files[tasks[t].path] # "absent")
                     => (fut'[t] = "skipped" /\ files' = files /\ writes' = writes)
              /\ (pc \in {"wait", "drain"} /\ fut[t] = "skipped")
                     => (fut'[t] = "skipped" /\ tasks' = tasks)
        /\ (pc = "wait" /\ pc' \in {"dump1", "fetch", "save2"})
              => /\ total' >= total
                 /\ total' - total <=
                        Cardinality({t \in 1..Len(fut) : fut[t] # "skipped"})
      ]_vars

\* C6 witness: a run has counted a batch in which a task was skipped, and the
\* skipped task added nothing to the count.
IdempotentSkipWitness ==
    /\ pc \in {"fetch", "save2", "dump1"}
    /\ resp >= 1
    /\ Len(fut) >= 2
    /\ \A t \in 1..Len(fut) : fut[t] = "skipped"
    /\ total = 0

\* C7: after runs stopped between pages, a run that ends leaves the files of one
\* uninterrupted run, and a re-run never opens for writing a path that exists.
IdempotentResume ==
    [][ /\ (rerun' /\ pc' = "done")
              => {p \in DOMAIN files' : files'[p] # "absent"} = FullRunFiles(conv)
        /\ rerun
              => \A p \in DOMAIN writes :
                     writes'[p] # writes[p] => files[p] = "absent"
      ]_vars

\* C8: with no download under way, every file in the folder is complete.
NoCorruptFiles ==
    (~(pc \in {"wait", "drain"}) \/ \A t \in 1..Len(fut) : fut[t] # "running")
        => \A p \in DOMAIN files : files[p] # "partial"

\* C9: whatever the step after which the process is killed, the next run reads
\* the mapping that was persisted before the step or the mapping being saved.
CrashSafeSave ==
    [][ load_state(stateFile') \in {load_state(stateFile), state'} ]_vars

\* C10: a failed request ends the loop at once: no task is submitted, the files
\* and resume_state.json are as before, and nothing but the start of another run
\* follows.
FetchErrorAborts ==
    [][ /\ (pc = "fetch" /\ resp' \in {ApiErr, OtherErr})
              => /\ pc' = "aborted"
                 /\ stateFile' = stateFile
                 /\ tasks' = tasks
                 /\ fut' = fut
                 /\ files' = files
        /\ (resp \in {ApiErr, OtherErr})
              => (pc = "aborted" /\ pc' = "start")
      ]_vars

\* C10 witness: the request for a later page failed after a cursor was persisted.
FetchErrorAbortsWitness ==
    /\ pc = "aborted"
    /\ resp \in {ApiErr, OtherErr}
    /\ ~rerun
    /\ Persisted(peer_id) = 2
    /\ Len(fut) >= 2

\* C11: a failed task stays failed for the rest of the batch (no retry), its
\* failure changes no sibling and does not stop the workers, the count of the
\* batch leaves it out, and the loop goes on to persist the page's next_from
\* whatever the outcomes of the tasks.
FailureIsolation ==
    [][ /\ \A t \in 1..Len(fut) :
              /\ (pc \in {"wait", "drain"} /\ fut[t] = "failed")
                     => fut'[t] = "failed"
              /\ (pc \in {"wait", "drain"} /\ fut[t] # "failed" /\ fut'[t] = "failed")
                     => /\ pc' = pc
                        /\ \A u \in 1..Len(fut) : u # t => fut'[u] = fut[u]
        /\ (pc \in {"wait", "drain"} /\ Unfinished # {})
              => ENABLED (\E t \in 1..Len(fut) :
                              Start(t) \/ DownloadOk(t) \/ DownloadFail(t))
        /\ (pc = "wait" /\ Unfinished = {})
              => ENABLED (/\ Collect
                          /\ start_from' = NextFrom(conv, resp)
                          /\ state'[peer_id] = NextFrom(conv, resp))
        /\ (pc = "wait" /\ pc' \in {"dump1", "fetch", "save2"})
              => /\ total' >= total
                 /\ total' - total <=
                        Cardinality({t \in 1..Len(fut) : fut[t] # "failed"})
                 /\ start_from' = NextFrom(conv, resp)
                 /\ state'[peer_id] = NextFrom(conv, resp)
      ]_vars

\* C11 witness: a page with a failed and a downloaded task was counted as one,
\* its next_from is persisted and the next request is due.
FailureIsolationWitness ==
    /\ pc = "fetch"
    /\ resp >= 1
    /\ \E t \in 1..Len(fut) : fut[t] = "failed"
    /\ \E t \in 1..Len(fut) : fut[t] = "ok"
    /\ total = 1
    /\ NextFrom(conv, resp) # None
    /\ start_from = NextFrom(conv, resp)
    /\ Persisted(peer_id) = NextFrom(conv, resp)

\* C12: whatever resume_state.json holds, loading it does not end the run: the
\* run goes on to the first request, and from anything but a stored object it
\* starts with an empty mapping and no cursor.
LoadNeverFails ==
    [][ (pc = "start" /\ pc' \notin {"start", "interrupted", "killed"})
            => /\ pc' = "fetch"
               /\ stateFile.kind # "obj" => (state' = EmptyMap /\ start_from' = None)
      ]_vars

\* C13: no resume_state.json ever written maps a conversation to a null cursor.
NoNullCursor ==
    stateFile.kind = "obj" => \A k \in Peers : stateFile.map[k] # None

\* the page a run that starts from cursor c requests first
FirstPage(c) == IF c = None \/ c = NoKey THEN 1 ELSE c

\* C14: the first failed save of a run does not end the loop (the run goes on
\* with the new cursor), and leaves the persisted position at most one page
\* behind the position of the loop.
SaveFailureSwallowed ==
    [][ (~saveFailed /\ saveFailed')
            => /\ pc' \in {"fetch", "save2", "done"}
               /\ pc \in {"wait", "dump1"}
                      => /\ start_from' = NextFrom(conv, resp)
                         /\ pc' = (IF start_from' # None THEN "fetch" ELSE "save2")
               /\ FirstPage(start_from')
                      - FirstPage(load_state(stateFile')[peer_id]) <= 1
      ]_vars

\* C15: when a first run, started on an empty folder, ends Done or Aborted, the
\* count it reports is the number of files it downloaded.
FinalCount ==
    (~rerun /\ pc \in {"done", "aborted"})
        => total = Cardinality({p \in DOMAIN files : files[p] = "complete"})

---------------------------------------------------------------------------
(* Planning alone: one page of generated items, loaded and planned *)

\* the longest list of size variants, and the longest page, that are generated
MaxSizes == 3
MaxItems == 3

\* the URL of the variant at position i of a list: each position has its own
PosUrl(i) == Url(<<"a", "b", "c", "d", "e", "f">>[i], "jpg")

\* every list of 1..MaxSizes variants, each with a width that is missing, 0, 1
\* or 2, and with or without a url
SizeLists ==
    UNION { { [i \in 1..n |-> Variant(f[i][1], IF f[i][2] THEN PosUrl(i) ELSE NoUrl)] :
                f \in [1..n -> {Missing, 0, 1, 2} \X BOOLEAN] } : n \in 1..MaxSizes }

\* the item of kind k at position i of a page (its id is its position)
ItemKinds == {"photo", "small", "noatt", "nophoto", "nosizes", "nourl", "noid"}
ItemOf(k, i) ==
    CASE k = "photo" -> Photo(i)
      [] k = "small" -> Small(i)
      [] k = "noatt" -> NoAttachment
      [] k = "nophoto" -> NoPhoto
      [] k = "nosizes" -> NoSizes(i)
      [] k = "nourl" -> Item(i, << Variant(100, NoUrl) >>)
      [] k = "noid" -> Item(Missing, << Variant(100, Url("s", "jpg")) >>)

ItemSeqs ==
    UNION { { [i \in 1..n |-> ItemOf(k[i], i)] : k \in [1..n -> ItemKinds] } :
                n \in 1..MaxItems }

PlanConvs ==
    { << Page(<< Item(1, sizes) >>, None) >> : sizes \in SizeLists }
        \cup { << Page(items, None) >> : items \in ItemSeqs }

InitPlan ==
    /\ conv \in PlanConvs
    /\ stateFile = NoFile
    /\ files = [p \in PathsOf(conv) |-> "absent"]
    /\ pc = "start"
    /\ state = EmptyMap
    /\ start_from = None
    /\ resp = NoResp
    /\ tasks = <<>>
    /\ fut = <<>>
    /\ total = 0
    /\ writes = [p \in PathsOf(conv) |-> 0]
    /\ rerun = FALSE
    /\ saveFailed = FALSE

NextPlan ==
    \/ Load
    \/ Fetch

SpecPlan == InitPlan /\ [][NextPlan]_vars

\* a page of one item, for which one task was planned
OnePlanned == pc = "wait" /\ resp = 1 /\ Len(Items(conv, 1)) = 1 /\ Len(tasks) = 1

\* C16 as stated: the task of an item uses the url of a variant of maximum width
\* (a missing width counting as zero), and that variant has a missing width only
\* if it is the only variant.
VariantSelection ==
    OnePlanned =>
        LET sizes == Items(conv, 1)[1].sizes
            W(s) == IF s.width = Missing THEN 0 ELSE s.width
        IN  \E i \in 1..Len(sizes) :
                /\ sizes[i].url = tasks[1].url
                /\ \A j \in 1..Len(sizes) : W(sizes[j]) <= W(sizes[i])
                /\ sizes[i].width = Missing => Len(sizes) = 1

\* C16 amended: the task of an item uses the url of a variant of maximum width
\* (a missing width counting as zero), and that variant has a missing width only
\* if no variant of the list has a width above zero.
VariantSelectionAmended ==
    OnePlanned =>
        LET sizes == Items(conv, 1)[1].sizes
            W(s) == IF s.width = Missing THEN 0 ELSE s.width
        IN  \E i \in 1..Len(sizes) :
                /\ sizes[i].url = tasks[1].url
                /\ \A j \in 1..Len(sizes) : W(sizes[j]) <= W(sizes[i])
                /\ sizes[i].width = Missing
                       => \A j \in 1..Len(sizes) :
                              sizes[j].width = Missing \/ sizes[j].width <= 0

\* C16 witness: a variant without a width was selected from a list that also
\* holds a variant with a width.
VariantSelectionWitness ==
    /\ OnePlanned
    /\ LET sizes == Items(conv, 1)[1].sizes
       IN  /\ Len(sizes) >= 2
           /\ \E i \in 1..Len(sizes) :
                  sizes[i].url = tasks[1].url /\ sizes[i].width = Missing
           /\ \E j \in 1..Len(sizes) : sizes[j].width # Missing

\* an item with an attachment, a photo, an id and a url in every size variant
WellFormedItem(it) ==
    /\ it.attachment
    /\ it.photo
    /\ it.id # Missing
    /\ Len(it.sizes) >= 1
    /\ \A k \in 1..Len(it.sizes) : it.sizes[k].url # NoUrl

\* an item without attachment, photo, size variants or id, or without any url
MalformedItem(it) ==
    \/ ~it.attachment
    \/ ~it.photo
    \/ it.id = Missing
    \/ Len(it.sizes) = 0
    \/ \A k \in 1..Len(it.sizes) : it.sizes[k].url = NoUrl

\* the positions of the well-formed items of a page
GoodAt(items) == {i \in 1..Len(items) : WellFormedItem(items[i])}

\* C17: for a page of well-formed and malformed items, with the malformed ones
\* at any positions, exactly one task per well-formed item is planned, and the
\* tasks are in the order of their items in the page.
GracefulPlanning ==
    (/\ pc = "wait"
     /\ resp >= 1
     /\ \A i \in 1..Len(Items(conv, resp)) :
            WellFormedItem(Items(conv, resp)[i]) \/ MalformedItem(Items(conv, resp)[i]))
        => LET items == Items(conv, resp)
               good == GoodAt(items)
           IN  /\ Len(tasks) = Cardinality(good)
               /\ \A i \in good :
                      LET n == Cardinality({j \in good : j <= i})
                      IN  /\ tasks[n].path.id = items[i].id
                          /\ \E k \in 1..Len(items[i].sizes) :
                                 items[i].sizes[k].url = tasks[n].url

\* C17 witness: a page of three items that starts with a malformed one and has
\* a malformed one after a well-formed one, with its tasks planned.
GracefulPlanningWitness ==
    /\ pc = "wait"
    /\ resp = 1
    /\ Len(Items(conv, 1)) = 3
    /\ GoodAt(Items(conv, 1)) = {2}
    /\ Len(tasks) = 1
    /\ tasks[1].path.id = 2

---------------------------------------------------------------------------
(* Runs that are never killed during a download: a file is partial only
   because a download failed after it had opened the file *)

NextRetry ==
    \/ Load
    \/ FetchError
    \/ Fetch
    \/ Collect
    \/ Dump1
    \/ Save2
    \/ Dump2
    \/ \E t \in 1..Len(fut) : Start(t)
    \/ \E t \in 1..Len(fut) : DownloadOk(t)
    \/ \E t \in 1..Len(fut) : DownloadFail(t)
    \/ Interrupt
    \/ Drained
    \/ KillQuiet
    \/ StartRun

SpecRetry == Init /\ [][NextRetry]_vars

\* C18: in a later run that starts with no cursor and fetches the first page
\* again, the task of an attachment whose download failed in an earlier run
\* (leaving its file partial) issues its request instead of being skipped.
RetryFailed ==
    [][ \A t \in 1..Len(fut) :
            (/\ rerun
             /\ conv = ConvDup
             /\ pc = "wait"
             /\ resp = 1
             /\ start_from = None
             /\ fut[t] = "pending"
             /\ fut'[t] # "pending"
             /\ files[tasks[t].path] = "partial")
                => fut'[t] = "running"
      ]_vars

\* C19: when a run that has made its first request ends (done, aborted or
\* interrupted), the persisted entry of the other conversation is the one the
\* run loaded.
OtherPeerFrame ==
    (pc \in {"done", "aborted"} \/ (pc = "interrupted" /\ resp # NoResp))
        => Persisted(OtherPeer) = state[OtherPeer]

---------------------------------------------------------------------------
(* One run left alone: no interrupt, no kill, every request and download
   returns *)

\* the steps of the main thread
Control ==
    \/ Load
    \/ FetchError
    \/ Fetch
    \/ Collect
    \/ Dump1
    \/ Save2
    \/ Dump2

\* the steps of the workers of the pool
Workers ==
    \/ \E t \in 1..Len(fut) : Start(t)
    \/ \E t \in 1..Len(fut) : DownloadOk(t)
    \/ \E t \in 1..Len(fut) : DownloadFail(t)

NextRun ==
    \/ Control
    \/ Workers

SpecLive == Init /\ [][NextRun]_vars /\ WF_vars(Control) /\ WF_vars(Workers)

\* C20: every run left alone eventually ends done or aborted.
Termination == <>(pc \in {"done", "aborted"})

====
